---- MODULE Spec2Model ----
(***************************************************************************)
(* simple-sexp: the lexer (Lexer::next), the recursive-descent parser      *)
(* (Parser::parse, Parser::expect_number, parse, parse_str) and the        *)
(* stringifier (impl Show for Value) of src/src/lib.rs.                     *)
(*                                                                         *)
(* A character is a one-character string, a text is a sequence of          *)
(* characters.  An f64 is the decimal it was read from: <<m, e>> is        *)
(* m / 10^e, with e as small as can be, so that equal numbers are equal    *)
(* pairs.                                                                  *)
(***************************************************************************)
EXTENDS Integers, Sequences, FiniteSets, TLC

\* ------------------------------------------------------------------ bounds

\* Longest enumerated input text.
MaxLen == 4
\* Longest symbol text and longest list of the values the round-trip
\* property draws.
MaxSymLen == 2
MaxItems == 2

\* ------------------------------------------------------------- characters

LPar == "("
RPar == ")"
Hyphen == "-"
Quote == "\""
Hash == "#"
Newline == "\n"
Space == " "
Tab == "\t"
At == "@"
Dot == "."

\* char::is_alphabetic, on the letters the inputs use.
Letters == {"a", "e", "m", "n", "o", "t", "w"}
IsAlphabetic(c) == c \in Letters

\* char::is_digit, and the decimal value of a digit.
DigitChars == <<"0", "1", "2", "3", "4", "5", "6", "7", "8", "9">>
IsDigit(c) == \E i \in 1..10 : DigitChars[i] = c
DigitVal(c) == (CHOOSE i \in 1..10 : DigitChars[i] = c) - 1

\* fn is_ident
is_ident(c) == IsAlphabetic(c) \/ c = Hyphen

\* The loop guard without the hyphen.
IdentContinuesAlpha(c) == IsAlphabetic(c)

\* The guard of the identifier loop, lib.rs 70.
IdentContinues(c) == IsAlphabetic(c) \/ c = Hyphen

\* The characters of the whitespace arm, lib.rs 104.
IsSpace(c) == c \in {Space, Newline, Tab}

\* ------------------------------------------------------------------ values

\* f64: m / 10^e in lowest terms of ten, and an integer as an f64
\* (`arb as f64`, lib.rs 201).
RECURSIVE Decimal(_, _)
Decimal(m, e) ==
  IF e > 0 /\ m % 10 = 0 THEN Decimal(m \div 10, e - 1) ELSE <<m, e>>
F64(n) == <<n, 0>>

\* enum Value.  Every variant carries all three payload fields, the unused
\* ones empty, so that two values always compare.
List(vals) == [t |-> "List", items |-> vals, txt |-> <<>>, num |-> F64(0)]
Symbol(val) == [t |-> "Symbol", items |-> <<>>, txt |-> val, num |-> F64(0)]
String_(val) == [t |-> "String_", items |-> <<>>, txt |-> val, num |-> F64(0)]
Number(val) == [t |-> "Number", items |-> <<>>, txt |-> <<>>, num |-> val]

\* enum Token, and the two ways Lexer::next returns None: the stream is at
\* its end (EOF, lib.rs 53) or the character matches no arm (INVALID,
\* lib.rs 107-110).  PANIC is the failed unwrap of lib.rs 64.
Tok(kind, text, val) == [k |-> kind, txt |-> text, num |-> val]
LPAREN == Tok("LPAREN", <<>>, F64(0))
RPAREN == Tok("RPAREN", <<>>, F64(0))
MINUS == Tok("MINUS", <<>>, F64(0))
NUM(val) == Tok("NUM", <<>>, val)
SYM(val) == Tok("SYM", val, F64(0))
STR(val) == Tok("STR", val, F64(0))
EOF == Tok("EOF", <<>>, F64(0))
INVALID == Tok("INVALID", <<>>, F64(0))
PANIC == Tok("PANIC", <<>>, F64(0))
IsNone(r) == r.k \in {"EOF", "INVALID"}

\* ------------------------------------------------------------------- lexer

\* The guards of the lexer's four `while self.stream.peek().map_or(false,
\* |&c| ...)` loops: lib.rs 61, 70, 79 and 99.
Continues(loop, c) ==
  CASE loop = "string" -> c /= Quote
    [] loop = "ident" -> IdentContinues(c)
    [] loop = "digits" -> IsDigit(c)
    [] loop = "comment" -> c /= Newline

\* The position such a loop stops at, entered with p characters consumed:
\* it consumes the next character for as long as there is one and it passes
\* the guard.
RECURSIVE RunEnd(_, _, _)
RunEnd(s, p, loop) ==
  IF p < Len(s) /\ Continues(loop, s[p + 1]) THEN RunEnd(s, p + 1, loop) ELSE p

\* The number a run of decimal digits writes.
RECURSIVE DigitsVal(_)
DigitsVal(ds) ==
  IF ds = <<>> THEN 0
  ELSE 10 * DigitsVal(SubSeq(ds, 1, Len(ds) - 1)) + DigitVal(ds[Len(ds)])

\* from_str::<f64> on the text the numeric arm gathers: digits, then
\* possibly a '.' and digits (lib.rs 96).  It takes every such text ("5."
\* is 5 and "0." is 0), so the unwrap never fails.
FromStr(res) ==
  LET dots == {i \in 1..Len(res) : res[i] = Dot}
      d == IF dots = {} THEN Len(res) + 1 ELSE CHOOSE i \in dots : TRUE
      whole == SubSeq(res, 1, d - 1)
      frac == SubSeq(res, d + 1, Len(res))
  IN Decimal(DigitsVal(whole \o frac), Len(frac))

\* A comment that swallows the rest of the stream.
CommentToEnd(s, p) == Len(s)

\* Where the comment that starts at character p ends: before the next
\* newline, or at the end of the stream (lib.rs 99-101).
CommentEnd(s, p) == RunEnd(s, p, "comment")

\* Lexer::next with p characters of s consumed: the token (or EOF, INVALID,
\* PANIC), the characters consumed after the call and the lines printed.
RECURSIVE LexNext(_, _)
LexNext(s, p) ==
  IF p >= Len(s) THEN [tok |-> EOF, pos |-> p, out |-> <<>>]
  ELSE
    LET c == s[p + 1] IN
    CASE c = LPar -> [tok |-> LPAREN, pos |-> p + 1, out |-> <<>>]
      [] c = RPar -> [tok |-> RPAREN, pos |-> p + 1, out |-> <<>>]
      [] c = Hyphen -> [tok |-> MINUS, pos |-> p + 1, out |-> <<>>]
      [] c = Quote ->
           LET q == RunEnd(s, p + 1, "string") IN
           IF q >= Len(s)
           THEN [tok |-> PANIC, pos |-> q, out |-> <<>>]
           ELSE [tok |-> STR(SubSeq(s, p + 2, q)), pos |-> q + 1, out |-> <<>>]
      [] c /= Hyphen /\ is_ident(c) ->
           LET q == RunEnd(s, p + 1, "ident") IN
           [tok |-> SYM(SubSeq(s, p + 1, q)), pos |-> q, out |-> <<>>]
      [] IsDigit(c) ->
           LET d == RunEnd(s, p + 1, "digits")
               q == IF d < Len(s) /\ s[d + 1] = Dot
                    THEN RunEnd(s, d + 1, "digits") ELSE d
           IN [tok |-> NUM(FromStr(SubSeq(s, p + 1, q))), pos |-> q,
               out |-> <<>>]
      [] c = Dot ->
           LET q == RunEnd(s, p + 1, "digits") IN
           [tok |-> NUM(FromStr(<<"0", Dot>> \o SubSeq(s, p + 2, q))),
            pos |-> q, out |-> <<>>]
      [] c = Hash -> LexNext(s, CommentEnd(s, p + 1))
      [] IsSpace(c) -> LexNext(s, p + 1)
      [] OTHER -> [tok |-> INVALID, pos |-> p + 1,
                   out |-> <<"Invalid character">>]

\* ------------------------------------------------------------------ parser

VARIABLES
  val,       \* test::quick's `val`, <<v>> when the input is its rendering
  input,     \* the characters handed to parse
  pos,       \* Lexer.stream: how many characters have been consumed
  peeked,    \* Parser.lexer's one-token lookahead: <<>> or <<token>>
  stack,     \* Parser.stack
  frames,    \* the activations of Parser::parse, outermost first
  returning, \* an activation has just returned `ret` to its caller
  ret,       \* the Option<Value> it returned: <<>> or <<value>>
  outcome,   \* "running", "value", or the place the task failed
  result,    \* the Value parse returned: <<>> or <<value>>
  out,       \* the lines printed
  emitted    \* what Lexer::next has returned so far, call by call

vars == <<val, input, pos, peeked, stack, frames, returning, ret, outcome,
          result, out, emitted>>

\* The ways the task fails.
Failures == {"UnterminatedString", "ExpectedNumber", "ExpectNumberAtEnd",
             "NeededAnElement", "ListAtEnd", "ListNotClosed", "NoValue"}

\* A next that refills the lookahead as soon as it has handed out a token.
PeekableNextEager(pk, s, p) ==
  LET r == IF pk /= <<>> THEN [tok |-> pk[1], pos |-> p, out |-> <<>>]
           ELSE LexNext(s, p)
      a == LexNext(s, r.pos)
  IN [item |-> r.tok,
      peeked |-> IF a.tok.k \in {"EOF", "INVALID", "PANIC"}
                 THEN <<>> ELSE <<a.tok>>,
      pos |-> a.pos, out |-> r.out \o a.out,
      asked |-> (IF pk /= <<>> THEN <<>> ELSE <<r.tok>>) \o <<a.tok>>]

\* Peekable::next of 2014's std::iter (the Parser.lexer field): the peeked
\* token if there is one, else the lexer is asked.
PeekableNext(pk, s, p) ==
  IF pk /= <<>>
  THEN [item |-> pk[1], peeked |-> <<>>, pos |-> p, out |-> <<>>,
        asked |-> <<>>]
  ELSE LET r == LexNext(s, p) IN
       [item |-> r.tok, peeked |-> <<>>, pos |-> r.pos, out |-> r.out,
        asked |-> <<r.tok>>]

\* Peekable::peek of 2014's std::iter: `peeked` is an Option<Token> filled
\* from the lexer when empty, so a None from the lexer is not remembered.
PeekablePeek(pk, s, p) ==
  IF pk /= <<>>
  THEN [item |-> pk[1], peeked |-> pk, pos |-> p, out |-> <<>>,
        asked |-> <<>>]
  ELSE LET r == LexNext(s, p) IN
       [item |-> r.tok,
        peeked |-> IF r.tok.k \in {"EOF", "INVALID", "PANIC"}
                   THEN <<>> ELSE <<r.tok>>,
        pos |-> r.pos, out |-> r.out, asked |-> <<r.tok>>]

\* The recursive call made without the swap.
KeepStack(st) == st

\* The Vec swapped into self.stack before the recursive call, lib.rs 142-143.
FreshStack(st) == <<>>

\* The child put in front of its elder siblings.
PushFront(st, v) == <<v>> \o st

\* Vec::push of the child the recursive call returned, lib.rs 149.
Push(st, v) == Append(st, v)

\* The sign dropped.
KeepSign(n) == n

\* The sign of `MINUS NUM`, lib.rs 139.
Negate(n) == <<0 - n[1], n[2]>>

Top == frames[Len(frames)]
Pop == SubSeq(frames, 1, Len(frames) - 1)
SetPc(l) == [frames EXCEPT ![Len(frames)].pc = l]
Frame(l, st) == [pc |-> l, st |-> st]

Running == outcome = "running" /\ ~returning /\ frames /= <<>>

\* What every token request does to the lexer's side of the state.
Asked(r) ==
  /\ pos' = r.pos
  /\ peeked' = r.peeked
  /\ emitted' = emitted \o r.asked

Fail(why) ==
  /\ outcome' = why
  /\ UNCHANGED <<stack, frames, returning, ret, result>>

Return(opt) ==
  /\ frames' = Pop
  /\ returning' = TRUE
  /\ ret' = opt
  /\ UNCHANGED <<outcome, result>>

\* Parser::parse from its entry to the first return, call or loop,
\* lib.rs 132-140 and 156-159.
ParseNext ==
  /\ Running /\ Top.pc = "start"
  /\ LET r == PeekableNext(peeked, input, pos)
         tok == r.item
     IN /\ Asked(r)
        /\ out' = out \o r.out \o
                  (IF tok.k = "RPAREN" THEN <<"Unbalanced parenthesis!">>
                   ELSE <<>>)
        /\ CASE tok.k = "PANIC" -> Fail("UnterminatedString")
             [] IsNone(tok) -> Return(<<>>) /\ UNCHANGED stack
             [] tok.k = "NUM" -> Return(<<Number(tok.num)>>) /\ UNCHANGED stack
             [] tok.k = "SYM" -> Return(<<Symbol(tok.txt)>>) /\ UNCHANGED stack
             [] tok.k = "STR" -> Return(<<String_(tok.txt)>>) /\ UNCHANGED stack
             [] tok.k = "MINUS" ->
                  /\ frames' = SetPc("minus")
                  /\ UNCHANGED <<stack, returning, ret, outcome, result>>
             [] tok.k = "LPAREN" ->
                  /\ frames' = SetPc("loop")
                  /\ UNCHANGED <<stack, returning, ret, outcome, result>>
             [] tok.k = "RPAREN" -> Return(<<>>) /\ UNCHANGED stack
  /\ UNCHANGED <<val, input>>

\* Parser::expect_number and the return of lib.rs 139.
ExpectNumber ==
  /\ Running /\ Top.pc = "minus"
  /\ LET r == PeekableNext(peeked, input, pos)
         tok == r.item
     IN /\ Asked(r)
        /\ out' = out \o r.out
        /\ CASE tok.k = "PANIC" -> Fail("UnterminatedString")
             [] IsNone(tok) -> Fail("ExpectNumberAtEnd")
             [] tok.k = "NUM" -> Return(<<Number(Negate(tok.num))>>)
             [] OTHER -> Fail("ExpectedNumber")
  /\ UNCHANGED <<val, input, stack>>

\* The loop test of lib.rs 141 and, when it holds, the swap and the
\* recursive call of lib.rs 142-145.
LoopPeek ==
  /\ Running /\ Top.pc = "loop"
  /\ LET r == PeekablePeek(peeked, input, pos)
         tok == r.item
     IN /\ Asked(r)
        /\ out' = out \o r.out
        /\ CASE tok.k = "PANIC" -> Fail("UnterminatedString")
             [] tok.k \notin {"PANIC", "EOF", "INVALID", "RPAREN"} ->
                  /\ frames' = Append([frames EXCEPT ![Len(frames)] =
                                         Frame("call", stack)],
                                      Frame("start", <<>>))
                  /\ stack' = FreshStack(stack)
                  /\ UNCHANGED <<returning, ret, outcome, result>>
             [] OTHER ->
                  /\ frames' = SetPc("close")
                  /\ UNCHANGED <<stack, returning, ret, outcome, result>>
  /\ UNCHANGED <<val, input>>

\* The recursive call returns: the expect, the swap back and the push of
\* lib.rs 145-149.
AfterCall ==
  /\ outcome = "running" /\ returning /\ frames /= <<>>
  /\ IF ret = <<>>
     THEN /\ outcome' = "NeededAnElement"
          /\ UNCHANGED <<stack, frames, returning, ret>>
     ELSE /\ stack' = Push(Top.st, ret[1])
          /\ frames' = [frames EXCEPT ![Len(frames)] = Frame("loop", <<>>)]
          /\ returning' = FALSE
          /\ ret' = <<>>
          /\ UNCHANGED outcome
  /\ UNCHANGED <<val, input, pos, peeked, emitted, out, result>>

\* The end of a list: the assert_eq, the last swap and the return of
\* lib.rs 151-154.
CloseList ==
  /\ Running /\ Top.pc = "close"
  /\ LET r == PeekableNext(peeked, input, pos)
         tok == r.item
     IN /\ Asked(r)
        /\ out' = out \o r.out
        /\ CASE tok.k = "PANIC" -> Fail("UnterminatedString")
             [] IsNone(tok) -> Fail("ListAtEnd")
             [] tok.k = "RPAREN" -> Return(<<List(stack)>>) /\ stack' = <<>>
             [] OTHER -> Fail("ListNotClosed")
  /\ UNCHANGED <<val, input>>

\* fn parse: the unwrap of what the outermost Parser::parse returned,
\* lib.rs 173.
Unwrap ==
  /\ outcome = "running" /\ returning /\ frames = <<>>
  /\ IF ret = <<>>
     THEN outcome' = "NoValue" /\ UNCHANGED result
     ELSE outcome' = "value" /\ result' = ret
  /\ UNCHANGED <<val, input, pos, peeked, stack, frames, returning, ret, out,
                 emitted>>

Next ==
  \/ ParseNext
  \/ ExpectNumber
  \/ LoopPeek
  \/ AfterCall
  \/ CloseList
  \/ Unwrap

\* --------------------------------------------------------------- the inputs

\* The characters the enumerated inputs are made of.
InputChars == {LPar, RPar, Hyphen, Quote, "a", "1", Dot, Hash, Newline, At}

RECURSIVE TextsUpTo(_, _)
TextsUpTo(chars, n) ==
  IF n = 0 THEN {<<>>}
  ELSE LET shorter == TextsUpTo(chars, n - 1)
       IN shorter \cup {Append(s, c) : s \in {x \in shorter : Len(x) = n - 1},
                                       c \in chars}

\* The inputs of test::meow and test::negative, and a commented input.
Text_meow == <<"(", "m", "e", "o", "w", " ", "(", "4", "2", ")", ")">>
Text_negative == <<"-", "4", "2">>
Text_note == <<"#", " ", "n", "o", "t", "e", "\n", "(", "a", ")">>
TestInputs == {Text_meow, Text_negative, Text_note}

Inputs == TextsUpTo(InputChars, MaxLen) \cup TestInputs

\* fn parse: a Lexer over the characters, a Parser with an empty stack, and
\* the call of Parser::parse (lib.rs 170-173).
Start(v, s) ==
  /\ val = v
  /\ input = s
  /\ pos = 0
  /\ peeked = <<>>
  /\ stack = <<>>
  /\ frames = <<Frame("start", <<>>)>>
  /\ returning = FALSE
  /\ ret = <<>>
  /\ outcome = "running"
  /\ result = <<>>
  /\ out = <<>>
  /\ emitted = <<>>

Init == \E s \in Inputs : Start(<<>>, s)

Spec == Init /\ [][Next]_vars

\* ------------------------------------------------------------- stringifier

\* Show for f64 (lib.rs 26): the decimal digits, '-' first when negative,
\* and the fraction, if there is one, after a '.'.
RECURSIVE ShowNat(_)
ShowNat(n) ==
  IF n < 10 THEN <<DigitChars[n + 1]>>
  ELSE Append(ShowNat(n \div 10), DigitChars[(n % 10) + 1])

RECURSIVE ShowFrac(_, _)
ShowFrac(n, e) ==
  IF e = 0 THEN <<>>
  ELSE Append(ShowFrac(n \div 10, e - 1), DigitChars[(n % 10) + 1])

RECURSIVE Pow10(_)
Pow10(e) == IF e = 0 THEN 1 ELSE 10 * Pow10(e - 1)

ShowNumber(x) ==
  LET m == IF x[1] < 0 THEN 0 - x[1] ELSE x[1]
      e == x[2]
  IN (IF x[1] < 0 THEN <<Hyphen>> ELSE <<>>)
       \o ShowNat(m \div Pow10(e))
       \o (IF e = 0 THEN <<>> ELSE <<Dot>> \o ShowFrac(m % Pow10(e), e))

\* impl Show for Value, lib.rs 11-29.
RECURSIVE Stringify(_)
RECURSIVE StringifyItems(_, _)
StringifyItems(vals, i) ==
  IF i > Len(vals) THEN <<>>
  ELSE Stringify(vals[i]) \o (IF i /= Len(vals) THEN <<Space>> ELSE <<>>)
       \o StringifyItems(vals, i + 1)

Stringify(v) ==
  CASE v.t = "List" -> <<LPar>> \o StringifyItems(v.items, 1) \o <<RPar>>
    [] v.t = "Symbol" -> v.txt
    [] v.t = "String_" -> <<Quote>> \o v.txt \o <<Quote>>
    [] v.t = "Number" -> ShowNumber(v.num)

\* impl Arbitrary for Value, lib.rs 184-206: Symbols of is_ident characters,
\* Strings without a quote, integer Numbers, and Lists of these.
SymbolTexts == TextsUpTo({c \in {"a", Hyphen, "1", Quote} : is_ident(c)}, MaxSymLen)
StringTexts == {s \in {<<>>, <<"a">>, <<Space>>, <<LPar, Hash>>, <<Quote>>} :
                  \A i \in 1..Len(s) : s[i] /= Quote}
NumberVals == {0 - 42, 0 - 1, 0, 7, 42}

Leaves ==
  {Symbol(s) : s \in SymbolTexts} \cup {String_(s) : s \in StringTexts}
    \cup {Number(F64(n)) : n \in NumberVals}

RECURSIVE SeqsUpTo(_, _)
SeqsUpTo(S, n) ==
  IF n = 0 THEN {<<>>}
  ELSE LET shorter == SeqsUpTo(S, n - 1)
       IN shorter \cup {Append(s, x) : s \in {y \in shorter : Len(y) = n - 1},
                                       x \in S}

\* A few values to nest: lists inside lists.
Nested ==
  { Symbol(<<"a">>), Number(F64(0 - 1)), List(<<>>), List(<<Symbol(<<"a">>)>>),
    List(<<List(<<>>), String_(<<"a">>)>>) }

Arbitrary ==
  Leaves \cup {List(vals) : vals \in SeqsUpTo(Leaves, MaxItems)}
    \cup {List(vals) : vals \in SeqsUpTo(Nested, MaxItems)}

\* test::quick: parse_str(val.to_string().as_slice()), lib.rs 225-227.
InitQuick == \E v \in Arbitrary : Start(<<v>>, Stringify(v))

SpecQuick == InitQuick /\ [][Next]_vars

\* ------------------------------------------------- the grammar, for reference

\* The tokens among what the lexer returned, and those of them the parser
\* has consumed (a peeked token is returned but not yet consumed).
IsToken(r) == r.k \notin {"EOF", "INVALID", "PANIC"}
Tokens == SelectSeq(emitted, IsToken)
Consumed == SubSeq(Tokens, 1, Len(Tokens) - Len(peeked))

\* The number of opposite sign.
Opposite(x) == <<0 - x[1], x[2]>>

\* value := NUMBER | SYMBOL | STRING | MINUS NUMBER | '(' value* ')', read
\* from token i of toks, each list's children gathered in a sequence of its
\* own: the value, and the token after it.
NoRead(i) == [ok |-> FALSE, v |-> Number(F64(0)), next |-> i]
Read(v, i) == [ok |-> TRUE, v |-> v, next |-> i]

RECURSIVE ReadValue(_, _)
RECURSIVE ReadItems(_, _, _)
ReadValue(toks, i) ==
  IF i > Len(toks) THEN NoRead(i)
  ELSE LET tok == toks[i] IN
       CASE tok.k = "NUM" -> Read(Number(tok.num), i + 1)
         [] tok.k = "SYM" -> Read(Symbol(tok.txt), i + 1)
         [] tok.k = "STR" -> Read(String_(tok.txt), i + 1)
         [] tok.k = "MINUS" ->
              IF i + 1 <= Len(toks) /\ toks[i + 1].k = "NUM"
              THEN Read(Number(Opposite(toks[i + 1].num)), i + 2)
              ELSE NoRead(i)
         [] tok.k = "LPAREN" -> ReadItems(toks, i + 1, <<>>)
         [] OTHER -> NoRead(i)

ReadItems(toks, i, acc) ==
  IF i > Len(toks) THEN NoRead(i)
  ELSE IF toks[i].k = "RPAREN" THEN Read(List(acc), i + 1)
  ELSE LET r == ReadValue(toks, i) IN
       IF r.ok THEN ReadItems(toks, r.next, Append(acc, r.v)) ELSE NoRead(i)

\* ------------------------------------------------------------------ claims

\* C1: round trip.  For every Value built from Lists, Symbols of is_ident
\* characters, quote-free Strings and integer Numbers, parsing its rendering
\* returns a value equal to it.
C1_RoundTrip ==
  (val /= <<>> /\ outcome /= "running") => (outcome = "value" /\ result = val)

\* C2: a parenthesized group parses to the List of exactly the values between
\* the '(' and its matching ')', in input order, a nested group being a
\* nested List at its position; "(meow (42))" gives
\* List[Symbol meow, List[Number 42]] and "()" the empty List.
C2_ListChildren ==
  /\ outcome = "value" =>
       LET r == ReadValue(Consumed, 1) IN r.ok /\ result = <<r.v>>
  /\ (input = Text_meow /\ outcome /= "running") =>
       result = <<List(<<Symbol(<<"m", "e", "o", "w">>), List(<<Number(F64(42))>>)>>)>>
  /\ (input = <<LPar, RPar>> /\ outcome /= "running") => result = <<List(<<>>)>>

\* A list of two children, the second a list, has been returned.
C2_Witness ==
  /\ outcome = "value"
  /\ result[1].t = "List"
  /\ Len(result[1].items) = 2
  /\ result[1].items[1].t = "Symbol"
  /\ result[1].items[2].t = "List"

\* C3: a MINUS followed by the token Number(n) yields Number(-n), at the
\* top level and inside a list; a MINUS followed by any other token fails
\* the parse in expect_number with "Expected number", and no value is
\* returned (nor is one when no token follows at all: expect_number then
\* fails on its unwrap).
C3_SignedNumber ==
  LET n == Len(Consumed) IN
  /\ (returning /\ n >= 2 /\ Consumed[n].k = "NUM" /\ Consumed[n - 1].k = "MINUS")
       => ret = <<Number(Opposite(Consumed[n].num))>>
  /\ (n >= 2 /\ Consumed[n].k /= "NUM" /\ Consumed[n - 1].k = "MINUS")
       => (outcome = "ExpectedNumber" /\ result = <<>> /\ ~returning)
  /\ outcome = "ExpectedNumber"
       => (n >= 2 /\ Consumed[n].k /= "NUM" /\ Consumed[n - 1].k = "MINUS")
  /\ (outcome /= "running" /\ frames /= <<>> /\ Top.pc = "minus")
       => /\ result = <<>> /\ ~returning
          /\ outcome = CASE IsToken(emitted[Len(emitted)]) -> "ExpectedNumber"
                         [] IsNone(emitted[Len(emitted)]) -> "ExpectNumberAtEnd"
                         [] OTHER -> "UnterminatedString"
  /\ (input = Text_negative /\ outcome /= "running")
       => result = <<Number(F64(0 - 42))>>

\* A negative number has been read inside a list.
C3_Witness ==
  /\ returning
  /\ Len(frames) >= 1
  /\ ret = <<Number(F64(0 - 1))>>
  /\ Consumed[Len(Consumed) - 1].k = "MINUS"

\* C4: once the lexer has met a character that matches none of its rules, no
\* later request yields a token; so an input whose first value contains such
\* a character fails instead of returning a value.
C4_InvalidCharacterEnds ==
  /\ \A i, j \in 1..Len(emitted) :
       (i < j /\ emitted[i].k = "INVALID") => ~IsToken(emitted[j])
  /\ outcome = "value" => \A i \in 1..Len(emitted) : emitted[i].k /= "INVALID"

\* More '(' than ')' among the tokens, and the lexer has reported the end
\* of the input.
Depth(toks) ==
  Cardinality({i \in 1..Len(toks) : toks[i].k = "LPAREN"})
    - Cardinality({i \in 1..Len(toks) : toks[i].k = "RPAREN"})
OpenAtEnd ==
  /\ emitted /= <<>>
  /\ emitted[Len(emitted)].k = "EOF"
  /\ Depth(Tokens) > 0

\* C5: when a '(' is open and the tokens end before its ')', parse reports
\* the failure: it returns no List of the children read so far and does not
\* abort the task.
C5_UnbalancedReported ==
  (outcome /= "running" /\ OpenAtEnd)
    => (outcome /= "value" /\ outcome \notin Failures)

\* C6: the parser yields "no value" only when the input ends before any
\* token is consumed; a leading ')' is not "no value".
C6_NoValueOnlyWhenEmpty ==
  /\ (returning /\ frames = <<>> /\ ret = <<>>) => emitted = <<EOF>>
  /\ outcome = "NoValue" => emitted = <<EOF>>

\* What Lexer::next returns call by call from position p of s, to the end
\* of the stream.
RECURSIVE LexTrace(_, _)
LexTrace(s, p) ==
  LET r == LexNext(s, p) IN
  IF r.tok.k \in {"EOF", "PANIC"} THEN <<r>> ELSE <<r>> \o LexTrace(s, r.pos)

LexToks(s) == LET tr == LexTrace(s, 0) IN [i \in 1..Len(tr) |-> tr[i].tok]

\* C7: one parse call reads one top-level value: once it is built no further
\* token is requested, and the value is that of the characters read, whatever
\* follows them; what follows is not reported.
C7_OneValue ==
  outcome = "value" =>
    /\ peeked = <<>>
    /\ ~ENABLED Next
    /\ ReadValue(Tokens, 1).next = Len(Tokens) + 1
    /\ SelectSeq(LexToks(SubSeq(input, 1, pos)), IsToken) = Tokens
    /\ Len(out) = Len(emitted) - Len(Tokens)

\* A value has been returned with a ')' or an invalid character after it.
C7_Witness ==
  /\ outcome = "value"
  /\ pos < Len(input)
  /\ input[pos + 1] \in {RPar, At}

\* s with the text f inserted after its first b characters.
Insert(s, b, f) == SubSeq(s, 1, b) \o f \o SubSeq(s, b + 1, Len(s))

\* Where a call of Lexer::next starts: before the first token and after
\* each one.
Boundaries(s) ==
  LET tr == LexTrace(s, 0) IN
  {0} \cup {tr[i].pos : i \in {j \in 1..Len(tr) : tr[j].tok.k /= "PANIC"}}

\* Blanks and a whole comment, and a comment without a newline.
Fillers ==
  { <<Space, Tab, Newline>>, <<Hash, "a", Space, Quote, LPar, Newline>> }
OpenComments == { <<Tab, Hash, "a", RPar, Space>> }

\* C8: blanks and comments produce no token: put before the first token or
\* between two tokens (a comment without a newline: after the last one) they
\* leave the token sequence unchanged; "# note\n(a)" parses to
\* List[Symbol a].
C8_BlanksAndComments ==
  outcome /= "running" =>
    LET toks == LexToks(input) IN
    /\ \A b \in Boundaries(input) :
         /\ \A f \in Fillers : LexToks(Insert(input, b, f)) = toks
         /\ LexNext(input, b).tok.k = "EOF" =>
              \A f \in OpenComments : LexToks(Insert(input, b, f)) = toks
    /\ \A i \in 1..Len(emitted) :
         emitted[i] = IF i <= Len(toks) THEN toks[i] ELSE EOF
    /\ input = Text_note => result = <<List(<<Symbol(<<"a">>)>>)>>

\* A comment and a newline have been skipped before a value that was
\* returned.
C8_Witness ==
  /\ outcome = "value"
  /\ Len(input) >= 3
  /\ input[1] = Hash
  /\ \E i \in 2..Len(input) : input[i] = Newline /\ i < pos

\* C9: a Symbol token is non-empty, starts with an alphabetic character and
\* is the longest run of alphabetic-or-hyphen characters from there; a '-'
\* at the start of a token is the MINUS token.
C9_SymbolTokens ==
  /\ \A i \in 1..Len(emitted) :
       emitted[i].k = "SYM" =>
         /\ emitted[i].txt /= <<>>
         /\ IsAlphabetic(emitted[i].txt[1])
         /\ \A j \in 1..Len(emitted[i].txt) :
              IsAlphabetic(emitted[i].txt[j]) \/ emitted[i].txt[j] = Hyphen
  /\ (emitted /= <<>> /\ emitted[Len(emitted)].k = "SYM") =>
       LET txt == emitted[Len(emitted)].txt IN
       /\ pos >= Len(txt)
       /\ SubSeq(input, pos - Len(txt) + 1, pos) = txt
       /\ pos < Len(input) =>
            ~(IsAlphabetic(input[pos + 1]) \/ input[pos + 1] = Hyphen)
  /\ outcome /= "running" =>
       \A p \in 0..(Len(input) - 1) :
         input[p + 1] = Hyphen => LexNext(input, p).tok = MINUS

\* A Symbol token with a hyphen in it has been emitted right after a MINUS.
C9_Witness ==
  /\ Len(emitted) >= 2
  /\ emitted[Len(emitted) - 1].k = "MINUS"
  /\ emitted[Len(emitted)].k = "SYM"
  /\ \E j \in 1..Len(emitted[Len(emitted)].txt) :
       emitted[Len(emitted)].txt[j] = Hyphen

\* The activations that have an open list, and the children each holds.
IsOpen(i) == frames[i].pc \in {"loop", "call", "close"}
Buffer(i) == IF frames[i].pc = "call" THEN frames[i].st ELSE stack

\* The value the open lists would make if each were closed now, innermost
\* first, `inner` being what the level below contributes.
RECURSIVE CloseUp(_, _)
CloseUp(i, inner) ==
  IF i = 0 THEN inner
  ELSE IF IsOpen(i) THEN CloseUp(i - 1, <<List(Buffer(i) \o inner)>>)
  ELSE CloseUp(i - 1, inner)

Closers == [i \in 1..Cardinality({j \in 1..Len(frames) : IsOpen(j)}) |-> RPAREN]

\* The consumed tokens that have made a value: not a MINUS still waiting
\* for its number.
Settled ==
  IF frames /= <<>> /\ Top.pc = "minus"
  THEN SubSeq(Consumed, 1, Len(Consumed) - 1) ELSE Consumed

\* C10: Parser.stack is empty at the entry to and at the normal return from
\* every call of Parser::parse, at every depth; so the swaps never move a
\* child to another nesting level: at every step the open lists hold what a
\* fresh sequence per call would hold.
C10_ScratchBuffer ==
  outcome = "running" =>
    /\ (frames /= <<>> /\ ~returning /\ Top.pc = "start") => stack = <<>>
    /\ returning => stack = <<>>
    /\ ~(returning /\ ret = <<>>) =>
         LET built == CloseUp(Len(frames), IF returning THEN ret ELSE <<>>)
             r == ReadValue(Settled \o Closers, 1)
         IN IF built = <<>> THEN Settled = <<>>
            ELSE r.ok /\ built = <<r.v>> /\ r.next = Len(Settled \o Closers) + 1

\* A call two lists deep is entered while the outer list already holds a
\* child.
C10_Witness ==
  /\ outcome = "running"
  /\ ~returning
  /\ Len(frames) >= 3
  /\ Top.pc = "start"
  /\ frames[1].st /= <<>>

====
